---- MODULE Spec2Model ----
(***************************************************************************)
(* A model of opt/virtual_scope/MethodDevirtualizer.cpp: the pass that     *)
(* turns devirtualizable instance methods into static methods and rewrites *)
(* their call sites.                                                       *)
(*                                                                         *)
(* The scope is three methods.  A (class "c1") and B (class "c2") are the  *)
(* instance methods the pass may convert; K (class "c1") is a static       *)
(* method that holds call sites.  The scope lists the two classes in either *)
(* order.  An instruction is a record                                      *)
(*   [id, op, method, srcs, range_base, range_size, dest]                  *)
(* where id stands for the identity of the IRInstruction object, method is *)
(* the DexMethod the instruction refers to (NoMethod when has_method() is  *)
(* false), srcs the explicit source registers (arg_word_count() is their   *)
(* number) and range_base/range_size the window of a /range instruction.   *)
(***************************************************************************)
EXTENDS Integers, Sequences, FiniteSets

VARIABLES
  scope,           \* the class scope: the classes in the order the walkers meet them
  config,          \* m_config: the four phase switches
  m_metrics,       \* m_metrics: the member the counters accumulate in
  meth,            \* per method: class, kind and flags of the DexMethod
  code,            \* per method: its IRCode (NoCode: get_code() == nullptr)
  target_classes,  \* argument of the running devirtualize_methods call
  pc,              \* "idle", "begin", "fix", "static", "count", "returned", "aborted"
  phase,           \* 1..4 inside a run, 5 when all four phases are over
  methods,         \* the method set of the running phase (local vmethods/dmethods)
  report,          \* the DevirtualizerMetrics value the last call returned
  runs_left,       \* calls of devirtualize_methods still to be made
  run,             \* calls of devirtualize_methods started so far
  fail,            \* which always_assert stopped the run ("none": none did)
  nextId,          \* identity of the next IRInstruction allocated with new
  hist             \* history of the running call, observed from the outside

vars == <<scope, config, m_metrics, meth, code, target_classes, pc, phase, methods,
          report, runs_left, run, fail, nextId, hist>>

-----------------------------------------------------------------------------
(* Bounds of the model. *)

\* longest list of call sites drawn for K
MaxCalls == 2
\* calls of devirtualize_methods made on one MethodDevirtualizer
MaxRuns == 2
\* longest method body drawn for the receiver-usage analysis (after load-param)
MaxBody == 2

-----------------------------------------------------------------------------
(* Names. *)

Methods == {"A", "B", "K"}
Classes == {"c1", "c2"}
\* the class scopes: the order of the classes is an input of the pass
Scopes == {<<"c1", "c2">>, <<"c2", "c1">>}
\* get_code() == nullptr: a method without a body.  An IRCode always holds
\* instructions, so the empty stream stands for the absent one.
NoCode == <<>>
NoMethod == "no-method"
NullMethod == "null"
\* non-concrete method references: RA names A through a subclass, RN names nothing
Refs == {"RA", "RN"}
NoReg == -1

Insn(id, op, m, srcs, base, size, dest) ==
  [id |-> id, op |-> op, method |-> m, srcs |-> srcs,
   range_base |-> base, range_size |-> size, dest |-> dest]

SeqsUpTo(S, n) == UNION {[1..k -> S] : k \in 0..n}

-----------------------------------------------------------------------------
(* Opcode predicates and the translation table. *)

is_invoke_virtual(op) == op \in {"invoke-virtual", "invoke-virtual/range"}

is_invoke_super(op) == op \in {"invoke-super", "invoke-super/range"}

is_invoke_direct(op) == op \in {"invoke-direct", "invoke-direct/range"}

is_invoke_static(op) == op \in {"invoke-static", "invoke-static/range"}

is_invoke_range(op) ==
  op \in {"invoke-virtual/range", "invoke-super/range", "invoke-direct/range",
          "invoke-static/range", "invoke-interface/range"}

has_range(op) == is_invoke_range(op) \/ op = "filled-new-array/range"

has_method(insn) == insn.method # NoMethod

invoke_virtual_to_static(op) ==
  CASE op = "invoke-virtual" -> "invoke-static"
    [] op = "invoke-virtual/range" -> "invoke-static/range"

invoke_super_to_static(op) ==
  CASE op = "invoke-super" -> "invoke-static"
    [] op = "invoke-super/range" -> "invoke-static/range"

invoke_direct_to_static(op) ==
  CASE op = "invoke-direct" -> "invoke-static"
    [] op = "invoke-direct/range" -> "invoke-static/range"

-----------------------------------------------------------------------------
(* The external collaborators, as the pass relies on them. *)

ZeroMetrics ==
  [num_methods_not_using_this |-> 0, num_methods_using_this |-> 0,
   num_virtual_calls |-> 0, num_direct_calls |-> 0, num_super_calls |-> 0]

is_concrete(m) == m \in Methods

\* resolve_method(ref, search): the definition a non-concrete reference names;
\* a "Virtual" search looks among the virtual methods only.
resolve_method(m, search) ==
  IF m = "RA" /\ (search = "Any" \/ (meth["A"].kind = "virtual" /\ ~meth["A"].static))
  THEN "A" ELSE NullMethod

\* devirtualize(scope): the virtual methods with exactly one reachable implementation
devirtualize == {m \in Methods : meth[m].kind = "virtual" /\ meth[m].mono /\ ~meth[m].static}

\* IRCode::replace_opcode(from, to): to takes from's place in the stream
replace_opcode(c, fromId, to) ==
  [i \in 1..Len(c) |-> IF c[i].id = fromId THEN to ELSE c[i]]

\* mutators::make_static without the receiver: the load-param instruction goes
\* and the registers above the receiver's move down by one
Renumber(r, this_reg) == IF r > this_reg THEN r - 1 ELSE r

drop_this(c) ==
  IF c = NoCode THEN NoCode
  ELSE LET this_reg == c[1].dest
           body == SubSeq(c, 2, Len(c))
       IN [i \in 1..Len(body) |->
             [body[i] EXCEPT
                !.dest = IF @ = NoReg THEN NoReg ELSE Renumber(@, this_reg),
                !.srcs = [k \in 1..Len(@) |-> Renumber(@[k], this_reg)],
                !.range_base = IF body[i].range_size = 0 THEN @
                               ELSE Renumber(@, this_reg)]]

make_static(m, c, keep_this) ==
  [decl |-> [m EXCEPT !.static = TRUE, !.kind = "direct"],
   code |-> IF keep_this THEN c ELSE drop_this(c)]

-----------------------------------------------------------------------------
(* The call-site rewriter. *)

\* patch_call_site without its last statement, set_method(callee)
patch_call_site_keeps_reference(callee, method_inst, metrics) ==
  LET op == method_inst.op IN
  IF is_invoke_virtual(op) THEN
    [ok |-> TRUE, insn |-> [method_inst EXCEPT !.op = invoke_virtual_to_static(op)],
     metrics |-> [metrics EXCEPT !.num_virtual_calls = @ + 1]]
  ELSE IF is_invoke_super(op) THEN
    [ok |-> TRUE, insn |-> [method_inst EXCEPT !.op = invoke_super_to_static(op)],
     metrics |-> [metrics EXCEPT !.num_super_calls = @ + 1]]
  ELSE IF is_invoke_direct(op) THEN
    [ok |-> TRUE, insn |-> [method_inst EXCEPT !.op = invoke_direct_to_static(op)],
     metrics |-> [metrics EXCEPT !.num_direct_calls = @ + 1]]
  ELSE [ok |-> FALSE, insn |-> method_inst, metrics |-> metrics]

\* patch_call_site with a super call counted as a direct call
patch_call_site_super_as_direct(callee, method_inst, metrics) ==
  LET op == method_inst.op IN
  IF is_invoke_virtual(op) THEN
    [ok |-> TRUE,
     insn |-> [method_inst EXCEPT !.op = invoke_virtual_to_static(op), !.method = callee],
     metrics |-> [metrics EXCEPT !.num_virtual_calls = @ + 1]]
  ELSE IF is_invoke_super(op) THEN
    [ok |-> TRUE,
     insn |-> [method_inst EXCEPT !.op = invoke_super_to_static(op), !.method = callee],
     metrics |-> [metrics EXCEPT !.num_direct_calls = @ + 1]]
  ELSE IF is_invoke_direct(op) THEN
    [ok |-> TRUE,
     insn |-> [method_inst EXCEPT !.op = invoke_direct_to_static(op), !.method = callee],
     metrics |-> [metrics EXCEPT !.num_direct_calls = @ + 1]]
  ELSE [ok |-> FALSE, insn |-> method_inst, metrics |-> metrics]

\* patch_call_site: ok is FALSE when always_assert_log(false, SHOW(op)) fires
patch_call_site(callee, method_inst, metrics) ==
  LET op == method_inst.op IN
  IF is_invoke_virtual(op) THEN
    [ok |-> TRUE,
     insn |-> [method_inst EXCEPT !.op = invoke_virtual_to_static(op), !.method = callee],
     metrics |-> [metrics EXCEPT !.num_virtual_calls = @ + 1]]
  ELSE IF is_invoke_super(op) THEN
    [ok |-> TRUE,
     insn |-> [method_inst EXCEPT !.op = invoke_super_to_static(op), !.method = callee],
     metrics |-> [metrics EXCEPT !.num_super_calls = @ + 1]]
  ELSE IF is_invoke_direct(op) THEN
    [ok |-> TRUE,
     insn |-> [method_inst EXCEPT !.op = invoke_direct_to_static(op), !.method = callee],
     metrics |-> [metrics EXCEPT !.num_direct_calls = @ + 1]]
  ELSE [ok |-> FALSE, insn |-> method_inst, metrics |-> metrics]

\* the target of an instruction as a fixer computes it
ResolvedTarget(inst, search) ==
  IF is_concrete(inst.method) THEN inst.method ELSE resolve_method(inst.method, search)

\* the explicit-form edit with set_src(i, src(i)): only the count goes down
DropFirstSrc_drops_last(inst) ==
  LET nargs == Len(inst.srcs) IN
  [inst EXCEPT !.srcs = [i \in 1..(nargs - 1) |-> inst.srcs[i]]]

\* the operand count and the registers of an instruction are uint16_t: what
\* set_arg_word_count, set_range_base and set_range_size are given wraps
UInt16Range == 65536

\* the explicit-form edit: for (i = 0; i < nargs - 1; i++) set_src(i, src(i + 1));
\* set_arg_word_count(nargs - 1).  The loop compares as int, so it does not run
\* for nargs = 0, and the count then wraps to 65535 operands, the new ones zero.
DropFirstSrc(inst) ==
  LET nargs == Len(inst.srcs)
      count == (nargs - 1) % UInt16Range
  IN [inst EXCEPT !.srcs = [i \in 1..count |->
                              IF i <= nargs - 1 THEN inst.srcs[i + 1] ELSE 0]]

\* the range-form edit of every window but that of one: set_range_base(base + 1),
\* set_range_size(size - 1), each stored as a uint16_t
AdvanceRange(inst) ==
  [inst EXCEPT !.range_base = (@ + 1) % UInt16Range,
               !.range_size = (@ - 1) % UInt16Range]

\* one iteration of the loop of the drop-receiver fixer over instruction i of st.code
DropFixerStep(st, i, statics) ==
  LET inst == st.code[i]
      method == ResolvedTarget(inst, "Any")
  IN
  IF ~st.ok \/ ~has_method(inst) THEN st
  ELSE IF method \notin statics THEN st
  ELSE LET p == patch_call_site(method, inst, st.metrics) IN
    IF ~p.ok THEN [st EXCEPT !.ok = FALSE, !.fail = "bad_opcode"]
    ELSE IF is_invoke_range(p.insn.op) THEN
      IF p.insn.range_size = 1 THEN
        [st EXCEPT !.code[i] = p.insn, !.metrics = p.metrics,
                   !.replacements =
                      Append(@, [from |-> p.insn.id,
                                 to |-> Insn(st.nextId, "invoke-static", method,
                                             <<>>, 0, 0, NoReg)]),
                   !.nextId = @ + 1]
      ELSE [st EXCEPT !.code[i] = AdvanceRange(p.insn), !.metrics = p.metrics]
    ELSE [st EXCEPT !.code[i] = DropFirstSrc(p.insn), !.metrics = p.metrics]

RECURSIVE DropFixerLoop(_, _, _)
DropFixerLoop(st, i, statics) ==
  IF i > Len(st.code) THEN st
  ELSE DropFixerLoop(DropFixerStep(st, i, statics), i + 1, statics)

RECURSIVE ApplyReplacements(_, _, _)
ApplyReplacements(c, repl, k) ==
  IF k > Len(repl) THEN c
  ELSE ApplyReplacements(replace_opcode(c, repl[k].from, repl[k].to), repl, k + 1)

\* the drop-receiver fixer without its second loop: the replacements are
\* collected and never applied
DropFixer_without_replacement(c, statics, metrics, nid) ==
  DropFixerLoop([code |-> c, metrics |-> metrics, replacements |-> <<>>,
                 nextId |-> nid, ok |-> TRUE, fail |-> "none"], 1, statics)

\* the fixer lambda of fix_call_sites_and_drop_this_arg on one method's code.
\* The always_assert of patch_call_site leaves the lambda inside its first
\* loop: the replacements recorded until then are not applied.
DropFixer(c, statics, metrics, nid) ==
  LET st == DropFixerLoop([code |-> c, metrics |-> metrics, replacements |-> <<>>,
                           nextId |-> nid, ok |-> TRUE, fail |-> "none"], 1, statics)
  IN IF st.ok THEN [st EXCEPT !.code = ApplyReplacements(st.code, st.replacements, 1)]
     ELSE st

\* one call of the keep-receiver fixer, on instruction i of st.code
KeepFixerStep(st, i, target_methods) ==
  LET opcode == st.code[i]
      method == ResolvedTarget(opcode, "Virtual")
  IN
  IF ~st.ok \/ ~has_method(opcode) THEN st
  ELSE IF method \notin target_methods THEN st
  ELSE IF is_invoke_static(opcode.op) THEN [st EXCEPT !.ok = FALSE, !.fail = "static_target"]
  ELSE LET p == patch_call_site(method, opcode, st.metrics) IN
    IF ~p.ok THEN [st EXCEPT !.ok = FALSE, !.fail = "bad_opcode"]
    ELSE [st EXCEPT !.code[i] = p.insn, !.metrics = p.metrics]

RECURSIVE KeepFixerLoop(_, _, _)
KeepFixerLoop(st, i, target_methods) ==
  IF i > Len(st.code) THEN st
  ELSE KeepFixerLoop(KeepFixerStep(st, i, target_methods), i + 1, target_methods)

KeepFixer(c, target_methods, metrics, nid) ==
  KeepFixerLoop([code |-> c, metrics |-> metrics, replacements |-> <<>>,
                 nextId |-> nid, ok |-> TRUE, fail |-> "none"], 1, target_methods)

\* the orders in which a class hands its methods to a walker
ClassOrders(cls) ==
  LET own == {m \in Methods : meth[m].cls = cls}
  IN {o \in [1..Cardinality(own) -> own] :
        \A i, j \in 1..Cardinality(own) : i # j => o[i] # o[j]}

\* the orders in which a walker can meet the methods of the classes
\* sc[k], sc[k + 1], ...: class after class, as the scope lists them
RECURSIVE WalkOrders(_, _)
WalkOrders(sc, k) ==
  IF k > Len(sc) THEN {<<>>}
  ELSE {h \o t : h \in ClassOrders(sc[k]), t \in WalkOrders(sc, k + 1)}

\* walk_code / walk_opcodes: the fixer on every method of order[k], order[k + 1], ...
\* that has code.  A failed always_assert ends the walk where it is.
RECURSIVE Walk(_, _, _, _, _)
Walk(w, order, k, drop, targets) ==
  IF k > Len(order) \/ ~w.ok THEN w
  ELSE LET m == order[k] IN
    IF w.code[m] = NoCode THEN Walk(w, order, k + 1, drop, targets)
    ELSE LET r == IF drop THEN DropFixer(w.code[m], targets, w.metrics, w.nextId)
                  ELSE KeepFixer(w.code[m], targets, w.metrics, w.nextId)
         IN Walk([code |-> [w.code EXCEPT ![m] = r.code], metrics |-> r.metrics,
                  nextId |-> r.nextId, ok |-> r.ok, fail |-> r.fail],
                 order, k + 1, drop, targets)

fix_call_sites_and_drop_this_arg(order, statics) ==
  Walk([code |-> code, metrics |-> m_metrics, nextId |-> nextId, ok |-> TRUE,
        fail |-> "none"], order, 1, TRUE, statics)

fix_call_sites(order, target_methods) ==
  Walk([code |-> code, metrics |-> m_metrics, nextId |-> nextId, ok |-> TRUE,
        fail |-> "none"], order, 1, FALSE, target_methods)

-----------------------------------------------------------------------------
(* The receiver-usage analyzer and the candidate classifier. *)

RECURSIVE UsesThisScan(_, _, _)
UsesThisScan(c, i, this_reg) ==
  IF i > Len(c) THEN FALSE
  ELSE LET insn == c[i] IN
    IF has_range(insn.op) /\ this_reg >= insn.range_base
                          /\ this_reg < insn.range_base + insn.range_size
    THEN TRUE
    ELSE IF \E k \in 1..Len(insn.srcs) : this_reg = insn.srcs[k] THEN TRUE
    ELSE UsesThisScan(c, i + 1, this_reg)

\* the two always_asserts of uses_this
UsesThisAssert(c) ==
  IF c = NoCode THEN "no_code"
  ELSE IF c[1].op # "load-param-object" THEN "no_load_param"
  ELSE "none"

\* uses_this without the test of the range window
RECURSIVE UsesThisScan_ignoring_ranges(_, _, _)
UsesThisScan_ignoring_ranges(c, i, this_reg) ==
  IF i > Len(c) THEN FALSE
  ELSE IF \E k \in 1..Len(c[i].srcs) : this_reg = c[i].srcs[k] THEN TRUE
  ELSE UsesThisScan_ignoring_ranges(c, i + 1, this_reg)

uses_this_ignoring_ranges(c) == UsesThisScan_ignoring_ranges(c, 1, c[1].dest)

\* uses_this on a body that passes both asserts
uses_this(c) == UsesThisScan(c, 1, c[1].dest)

get_devirtualizable_vmethods(targets) ==
  {m \in devirtualize : meth[m].cls \in targets}

\* get_devirtualizable_dmethods without the is_static test
get_devirtualizable_dmethods_with_statics(targets) ==
  {m \in Methods : /\ meth[m].cls \in targets
                   /\ meth[m].kind = "direct"
                   /\ ~meth[m].init}

get_devirtualizable_dmethods(targets) ==
  {m \in Methods : /\ meth[m].cls \in targets
                   /\ meth[m].kind = "direct"
                   /\ ~(meth[m].init \/ meth[m].static)}

devirtualizable_methods(candidates) ==
  {m \in candidates : ~(meth[m].keep \/ meth[m].external \/ meth[m].abstract)}

devirtualizable_methods_not_using_this(candidates) ==
  {m \in devirtualizable_methods(candidates) : ~uses_this(code[m])}

-----------------------------------------------------------------------------
(* The orchestrator: devirtualize_methods. *)

\* the switches with the second phase reading the first phase's switch
PhaseSwitch_copied(p) ==
  CASE p = 1 -> config.vmethods_not_using_this
    [] p = 2 -> config.vmethods_not_using_this
    [] p = 3 -> config.vmethods_using_this
    [] p = 4 -> config.dmethods_using_this

PhaseSwitch(p) ==
  CASE p = 1 -> config.vmethods_not_using_this
    [] p = 2 -> config.dmethods_not_using_this
    [] p = 3 -> config.vmethods_using_this
    [] p = 4 -> config.dmethods_using_this

DropPhase(p) == p \in {1, 2}

PhaseCandidates(p) ==
  IF p \in {1, 3} THEN get_devirtualizable_vmethods(target_classes)
  ELSE get_devirtualizable_dmethods(target_classes)

\* what the phase hands to staticize_methods_*
PhaseMethods(p) ==
  IF DropPhase(p) THEN devirtualizable_methods_not_using_this(PhaseCandidates(p))
  ELSE devirtualizable_methods(PhaseCandidates(p))

\* the asserts of uses_this that can stop the phase's classification: the loop
\* of devirtualizable_methods_not_using_this walks an unordered_set, so the
\* assert that fires is that of whichever failing method it meets first
PhaseAsserts(p) ==
  IF ~DropPhase(p) THEN {}
  ELSE {UsesThisAssert(code[m]) : m \in devirtualizable_methods(PhaseCandidates(p))}
       \ {"none"}

TargetChoices == {{"c1"}, {"c1", "c2"}}

NewHist == [base |-> m_metrics, patched |-> 0, dropped |-> 0, kept |-> 0]

\* the number of instructions of the scope that differ between two code maps
Changed(c1, c2) ==
  Cardinality(UNION {{<<m, i>> : i \in {j \in 1..Len(c1[m]) : c1[m][j] # c2[m][j]}} :
                       m \in {x \in Methods : c1[x] # NoCode}})

StartRun ==
  /\ pc \in {"idle", "returned"}
  /\ runs_left > 0
  /\ \E t \in TargetChoices : target_classes' = t
  /\ pc' = "begin"
  /\ phase' = 1
  /\ run' = run + 1
  /\ runs_left' = runs_left - 1
  /\ methods' = {}
  /\ hist' = NewHist
  /\ UNCHANGED <<scope, config, m_metrics, meth, code, report, fail, nextId>>

BeginPhase ==
  /\ pc = "begin"
  /\ phase \in 1..4
  /\ IF ~PhaseSwitch(phase)
     THEN /\ phase' = phase + 1
          /\ UNCHANGED <<pc, methods, fail>>
     ELSE IF PhaseAsserts(phase) # {}
     THEN /\ pc' = "aborted"
          /\ fail' \in PhaseAsserts(phase)
          /\ UNCHANGED <<phase, methods>>
     ELSE /\ methods' = PhaseMethods(phase)
          /\ pc' = "fix"
          /\ UNCHANGED <<phase, fail>>
  /\ UNCHANGED <<scope, config, m_metrics, meth, code, target_classes, report,
                 runs_left, run, nextId, hist>>

\* the end of a rewrite pass.  A failed always_assert ends the process: what the
\* pass had written before it is seen by nobody, and the scope is left as it was.
\* Within a class the walkers meet the methods in the order of the class's
\* method lists, which the pass does not fix: every such order is taken.
FixStep(w) ==
  IF w.ok
  THEN /\ code' = w.code
       /\ m_metrics' = w.metrics
       /\ nextId' = w.nextId
       /\ hist' = [hist EXCEPT !.patched = @ + Changed(code, w.code)]
       /\ pc' = "static"
       /\ UNCHANGED fail
  ELSE /\ pc' = "aborted"
       /\ fail' = w.fail
       /\ UNCHANGED <<code, m_metrics, nextId, hist>>

FixCallSitesAndDropThisArg ==
  /\ pc = "fix"
  /\ DropPhase(phase)
  /\ \E order \in WalkOrders(scope, 1) :
       FixStep(fix_call_sites_and_drop_this_arg(order, methods))
  /\ UNCHANGED <<scope, config, meth, target_classes, phase, methods, report, runs_left, run>>

FixCallSites ==
  /\ pc = "fix"
  /\ ~DropPhase(phase)
  /\ \E order \in WalkOrders(scope, 1) : FixStep(fix_call_sites(order, methods))
  /\ UNCHANGED <<scope, config, meth, target_classes, phase, methods, report, runs_left, run>>

make_methods_static(ms, keep_this) ==
  [m \in Methods |->
     IF m \in ms THEN make_static(meth[m], code[m], keep_this)
     ELSE [decl |-> meth[m], code |-> code[m]]]

MakeMethodsStatic ==
  /\ pc = "static"
  /\ LET r == make_methods_static(methods, ~DropPhase(phase))
         flipped == Cardinality({m \in Methods : r[m].decl.static /\ ~meth[m].static})
     IN /\ meth' = [m \in Methods |-> r[m].decl]
        /\ code' = [m \in Methods |-> r[m].code]
        /\ hist' = IF DropPhase(phase) THEN [hist EXCEPT !.dropped = @ + flipped]
                   ELSE [hist EXCEPT !.kept = @ + flipped]
  /\ pc' = "count"
  /\ UNCHANGED <<scope, config, m_metrics, target_classes, phase, methods, report,
                 runs_left, run, fail, nextId>>

CountMethods(metrics, p, ms) ==
  IF DropPhase(p)
  THEN [metrics EXCEPT !.num_methods_not_using_this = @ + Cardinality(ms)]
  ELSE [metrics EXCEPT !.num_methods_using_this = @ + Cardinality(ms)]

UpdateCount ==
  /\ pc = "count"
  /\ m_metrics' = CountMethods(m_metrics, phase, methods)
  /\ phase' = phase + 1
  /\ pc' = "begin"
  /\ UNCHANGED <<scope, config, meth, code, target_classes, methods, report, runs_left,
                 run, fail, nextId, hist>>

Return ==
  /\ pc = "begin"
  /\ phase = 5
  /\ report' = m_metrics
  /\ pc' = "returned"
  /\ UNCHANGED <<scope, config, m_metrics, meth, code, target_classes, phase, methods,
                 runs_left, run, fail, nextId, hist>>

Next ==
  \/ StartRun
  \/ BeginPhase
  \/ FixCallSitesAndDropThisArg
  \/ FixCallSites
  \/ MakeMethodsStatic
  \/ UpdateCount
  \/ Return

-----------------------------------------------------------------------------
(* Initial states: the scopes and switch settings the pass is run on.  Every  *)
(* scope is well formed: an invoke-virtual or invoke-super names a virtual    *)
(* method, an invoke-direct a direct one, an invoke-static a static one, a    *)
(* call of an instance method passes the receiver, only a virtual method is   *)
(* named through a non-concrete reference, and a body starts with the load of *)
(* the receiver.                                                              *)

Decl(cls, kind, mono, init, keep, external, abstract) ==
  [cls |-> cls, kind |-> kind, mono |-> mono, static |-> FALSE, init |-> init,
   keep |-> keep, external |-> external, abstract |-> abstract]

KDecl ==
  [cls |-> "c1", kind |-> "direct", mono |-> FALSE, static |-> TRUE, init |-> FALSE,
   keep |-> FALSE, external |-> FALSE, abstract |-> FALSE]

Plain(op, dest, srcs) == Insn(0, op, NoMethod, srcs, 0, 0, dest)
Call(op, m, srcs) == Insn(0, op, m, srcs, 0, 0, NoReg)
CallRange(op, m, base, size) == Insn(0, op, m, <<>>, base, size, NoReg)

\* a list of instruction templates as a stream of distinct instructions
Stream(first, s) == [i \in 1..Len(s) |-> [s[i] EXCEPT !.id = first + i]]

NotUsingBody == <<Plain("load-param-object", 0, <<>>), Plain("const", 1, <<>>),
                  Plain("return-void", NoReg, <<>>)>>

MoveBody == <<Plain("load-param-object", 0, <<>>), Plain("move", 1, <<0>>),
              Plain("return-void", NoReg, <<>>)>>

\* a body that passes its receiver on to a call of the method itself
SelfCallBody(m, kind) ==
  <<Plain("load-param-object", 0, <<>>),
    Call(IF kind = "virtual" THEN "invoke-virtual" ELSE "invoke-direct", m, <<0>>),
    Plain("return-void", NoReg, <<>>)>>

\* a body that calls another method of the scope on a register of its own,
\* through a window of one, and leaves its own receiver alone
CallerBody(callee, kind) ==
  <<Plain("load-param-object", 0, <<>>),
    CallRange(IF kind = "virtual" THEN "invoke-virtual/range" ELSE "invoke-direct/range",
              callee, 1, 1),
    Plain("return-void", NoReg, <<>>)>>

Configs ==
  [vmethods_not_using_this : BOOLEAN, dmethods_not_using_this : BOOLEAN,
   vmethods_using_this : BOOLEAN, dmethods_using_this : BOOLEAN]

Config(a, b, c, d) ==
  [vmethods_not_using_this |-> a, dmethods_not_using_this |-> b,
   vmethods_using_this |-> c, dmethods_using_this |-> d]

\* A in the orchestrator's scopes: virtual or direct; plain with one of four
\* bodies (one of them none: a native method, one a call of B, whose kind is
\* bkind), kept, external or abstract
AProfiles(bkind) ==
  {[decl |-> Decl("c1", k, k = "virtual", FALSE, v = "keep", v = "external", v = "abstract"),
    body |-> CASE v = "notusing" -> NotUsingBody
               [] v = "using" -> MoveBody
               [] v = "caller" -> CallerBody("B", bkind)
               [] v = "keep" -> NotUsingBody
               [] OTHER -> NoCode] :
     k \in {"virtual", "direct"},
     v \in {"notusing", "using", "caller", "native", "keep", "external", "abstract"}}

\* B: virtual (monomorphic or not), direct, or a constructor; one of the
\* bodies is a call of A, whose kind is akind
BProfiles(akind) ==
  {[decl |-> Decl("c2", "virtual", TRUE, FALSE, FALSE, FALSE, FALSE), body |-> NotUsingBody],
   [decl |-> Decl("c2", "virtual", TRUE, FALSE, FALSE, FALSE, FALSE),
    body |-> CallerBody("A", akind)],
   [decl |-> Decl("c2", "virtual", TRUE, FALSE, FALSE, FALSE, FALSE),
    body |-> SelfCallBody("B", "virtual")],
   [decl |-> Decl("c2", "virtual", FALSE, FALSE, FALSE, FALSE, FALSE), body |-> NotUsingBody],
   [decl |-> Decl("c2", "direct", FALSE, FALSE, FALSE, FALSE, FALSE),
    body |-> SelfCallBody("B", "direct")],
   [decl |-> Decl("c2", "direct", FALSE, TRUE, FALSE, FALSE, FALSE), body |-> MoveBody]}

\* the call sites of K in the orchestrator's scopes
OrchCallA(kind) ==
  IF kind = "virtual"
  THEN {Call("invoke-virtual", "RA", <<1, 2>>), CallRange("invoke-super/range", "A", 1, 1)}
  ELSE {Call("invoke-direct", "A", <<1>>), CallRange("invoke-direct/range", "A", 1, 2)}

OrchCallB(kind) ==
  IF kind = "virtual" THEN Call("invoke-virtual", "B", <<3>>)
  ELSE Call("invoke-direct", "B", <<3, 4>>)

InitCommon ==
  /\ scope \in Scopes
  /\ m_metrics = ZeroMetrics
  /\ report = ZeroMetrics
  /\ target_classes = {}
  /\ pc = "idle"
  /\ phase = 0
  /\ methods = {}
  /\ run = 0
  /\ fail = "none"
  /\ nextId = 100
  /\ hist = [base |-> ZeroMetrics, patched |-> 0, dropped |-> 0, kept |-> 0]

Init ==
  /\ InitCommon
  /\ runs_left = MaxRuns
  /\ config \in Configs
  /\ \E ka, kb \in {"virtual", "direct"} :
     \E a \in {x \in AProfiles(kb) : x.decl.kind = ka},
        b \in {x \in BProfiles(ka) : x.decl.kind = kb} :
       \E ca \in OrchCallA(ka) :
         /\ meth = [m \in Methods |-> CASE m = "A" -> a.decl [] m = "B" -> b.decl
                                        [] OTHER -> KDecl]
         /\ code = [m \in Methods |->
                      CASE m = "A" -> IF a.body = NoCode THEN NoCode ELSE Stream(10, a.body)
                        [] m = "B" -> Stream(20, b.body)
                        [] OTHER -> Stream(0, <<ca, OrchCallB(kb),
                                                Call("invoke-static", "K", <<>>)>>)]

Spec == Init /\ [][Next]_vars

-----------------------------------------------------------------------------
(* Scopes for the call-site rewriter: K holds any list of at most MaxCalls    *)
(* instructions drawn from every call shape a well-formed scope can hold.     *)

RewriteShapes(kind) ==
  (IF kind = "virtual"
   THEN {Call("invoke-virtual", "A", <<1>>), Call("invoke-virtual", "A", <<3, 1>>),
         CallRange("invoke-virtual/range", "A", 2, 1),
         CallRange("invoke-virtual/range", "A", 2, 3),
         Call("invoke-super", "A", <<3, 1>>),
         CallRange("invoke-super/range", "A", 2, 1),
         Call("invoke-virtual", "RA", <<1, 2>>),
         CallRange("invoke-virtual/range", "RA", 1, 1)}
   ELSE {Call("invoke-direct", "A", <<1>>), Call("invoke-direct", "A", <<3, 1>>),
         CallRange("invoke-direct/range", "A", 2, 1),
         CallRange("invoke-direct/range", "A", 2, 3)})
  \cup {Call("invoke-virtual", "B", <<2>>), CallRange("invoke-virtual/range", "B", 1, 2),
        Call("invoke-static", "K", <<>>), Call("invoke-interface", "RN", <<1>>),
        Plain("const", 1, <<>>)}

RewriteConfigs ==
  {Config(TRUE, TRUE, FALSE, FALSE), Config(FALSE, FALSE, TRUE, TRUE),
   Config(TRUE, FALSE, FALSE, TRUE), Config(TRUE, TRUE, TRUE, TRUE)}

InitRewrite ==
  /\ InitCommon
  /\ runs_left = 1
  /\ config \in RewriteConfigs
  /\ \E k \in {"virtual", "direct"}, body \in {NotUsingBody, MoveBody} :
       \E calls \in SeqsUpTo(RewriteShapes(k), MaxCalls) :
         /\ meth = [m \in Methods |->
                      CASE m = "A" -> Decl("c1", k, k = "virtual", FALSE, FALSE, FALSE, FALSE)
                        [] m = "B" -> Decl("c2", "virtual", TRUE, FALSE, FALSE, FALSE, FALSE)
                        [] OTHER -> KDecl]
         /\ code = [m \in Methods |->
                      CASE m = "A" -> Stream(10, body)
                        [] m = "B" -> Stream(20, NotUsingBody)
                        [] OTHER -> Stream(0, calls)]

SpecRewrite == InitRewrite /\ [][Next]_vars

-----------------------------------------------------------------------------
(* Scopes for the receiver-usage analyzer: the body of A is the load of the   *)
(* receiver into register 0 or 1, then any list of at most MaxBody            *)
(* instructions that write, read or span registers 0..2.                      *)

BodyInsns ==
  {Plain("const", 0, <<>>), Plain("const", 1, <<>>),
   Plain("move", 2, <<0>>), Plain("move", 2, <<1>>), Plain("add-int", 2, <<2, 1>>),
   CallRange("invoke-static/range", "K", 0, 1),
   CallRange("invoke-static/range", "K", 1, 2),
   CallRange("invoke-static/range", "K", 2, 1),
   Insn(0, "filled-new-array/range", NoMethod, <<>>, 0, 2, NoReg),
   Plain("return-void", NoReg, <<>>)}

InitUses ==
  /\ InitCommon
  /\ runs_left = 1
  /\ config \in {Config(TRUE, TRUE, TRUE, TRUE), Config(FALSE, FALSE, TRUE, TRUE)}
  /\ \E this_reg \in {0, 1}, body \in SeqsUpTo(BodyInsns, MaxBody) :
       /\ meth = [m \in Methods |->
                    CASE m = "A" -> Decl("c1", "virtual", TRUE, FALSE, FALSE, FALSE, FALSE)
                      [] m = "B" -> Decl("c2", "direct", FALSE, FALSE, FALSE, FALSE, FALSE)
                      [] OTHER -> KDecl]
       /\ code = [m \in Methods |->
                    CASE m = "A" -> Stream(10, <<Plain("load-param-object", this_reg, <<>>)>>
                                                \o body)
                      [] m = "B" -> Stream(20, SelfCallBody("B", "direct"))
                      [] OTHER -> Stream(0, <<Call("invoke-virtual", "A", <<1>>),
                                              Call("invoke-direct", "B", <<2>>)>>)]

SpecUses == InitUses /\ [][Next]_vars

-----------------------------------------------------------------------------
(* Vocabulary of the properties. *)

\* a step that is one whole call-site rewrite pass, run to its end
FixPassDone == pc = "fix" /\ pc' = "static"

\* the search strategy of the running pass
PassSearch == IF DropPhase(phase) THEN "Any" ELSE "Virtual"

\* the instruction calls a method of the running pass's target set
InTargetSet(inst) ==
  has_method(inst) /\ ResolvedTarget(inst, PassSearch) \in methods

\* the argument list of a call, whichever its encoding
Args(inst) ==
  IF is_invoke_range(inst.op)
  THEN [i \in 1..inst.range_size |-> inst.range_base + i - 1]
  ELSE inst.srcs

\* every place of the scope that holds an instruction
Positions == UNION {{<<m, i>> : i \in 1..Len(code[m])} : m \in Methods}

CallCounters(metrics) ==
  metrics.num_virtual_calls + metrics.num_super_calls + metrics.num_direct_calls

-----------------------------------------------------------------------------
(* C1: exactly-once rewrite.  In one call-site rewrite pass (drop-receiver or *)
(* keep-receiver) that runs to its end, every instruction whose resolved call *)
(* target is in the target set becomes a static call of the resolved method   *)
(* and is counted once; every other instruction, with or without a call       *)
(* target, is the same after the pass as before it.                           *)
C1_ExactlyOnceRewrite ==
  [][FixPassDone =>
       /\ \A m \in Methods : Len(code'[m]) = Len(code[m])
       /\ \A p \in Positions :
            LET old == code[p[1]][p[2]]
                new == code'[p[1]][p[2]]
            IN IF InTargetSet(old)
               THEN /\ is_invoke_static(new.op)
                    /\ is_invoke_range(new.op) => is_invoke_range(old.op)
                    /\ new.method = ResolvedTarget(old, PassSearch)
               ELSE new = old
       /\ CallCounters(m_metrics') =
            CallCounters(m_metrics) + Cardinality({p \in Positions :
                                                     InTargetSet(code[p[1]][p[2]])})]_vars

\* a pass is over that patched a call in K and left another call of K alone
C1_Witness ==
  /\ pc = "static"
  /\ hist.patched >= 1
  /\ \E i \in 1..Len(code["K"]) :
       is_invoke_static(code["K"][i].op) /\ code["K"][i].method \in methods
  /\ \E i \in 1..Len(code["K"]) :
       has_method(code["K"][i]) /\ ~is_invoke_static(code["K"][i].op)

(* C2: argument correspondence.  After a drop-receiver pass the argument list *)
(* of every patched call is the original list without its first argument, in  *)
(* the original order: an explicit call keeps its encoding with the operands  *)
(* moved one place to the front, a range call with a window larger than one   *)
(* keeps its encoding with base + 1 and size - 1.  After a keep-receiver pass *)
(* the operands and the window of every patched call are unchanged.           *)
C2_ArgumentCorrespondence ==
  [][FixPassDone =>
       \A p \in Positions :
         LET old == code[p[1]][p[2]]
             new == code'[p[1]][p[2]]
         IN InTargetSet(old) =>
              IF DropPhase(phase)
              THEN /\ Args(new) = Tail(Args(old))
                   /\ Len(Args(new)) = Len(Args(old)) - 1
                   /\ ~is_invoke_range(old.op) =>
                        /\ ~is_invoke_range(new.op)
                        /\ \A k \in 1..Len(new.srcs) : new.srcs[k] = old.srcs[k + 1]
                   /\ (is_invoke_range(old.op) /\ old.range_size > 1) =>
                        /\ is_invoke_range(new.op)
                        /\ new.range_base = old.range_base + 1
                        /\ new.range_size = old.range_size - 1
              ELSE /\ new.srcs = old.srcs
                   /\ new.range_base = old.range_base
                   /\ new.range_size = old.range_size
                   /\ is_invoke_range(new.op) <=> is_invoke_range(old.op)]_vars

\* a drop-receiver pass is over that left a patched explicit call with one
\* argument and a patched range call with a window of two
C2_Witness ==
  /\ pc = "static"
  /\ DropPhase(phase)
  /\ \E i, j \in 1..Len(code["K"]) :
       /\ code["K"][i].op = "invoke-static"
       /\ code["K"][i].method \in methods
       /\ code["K"][i].srcs = <<1>>
       /\ code["K"][j].op = "invoke-static/range"
       /\ code["K"][j].method \in methods
       /\ code["K"][j].range_base = 3
       /\ code["K"][j].range_size = 2

(* C3: range degeneracy.  After a drop-receiver pass, the place of every      *)
(* range call with a window of one whose resolved target is in the target set *)
(* holds a non-range static call with no argument and the resolved target,    *)
(* and the original instruction is nowhere in the scope.                      *)
C3_RangeDegeneracy ==
  [][(FixPassDone /\ DropPhase(phase)) =>
       \A p \in Positions :
         LET old == code[p[1]][p[2]]
             new == code'[p[1]][p[2]]
         IN (InTargetSet(old) /\ is_invoke_range(old.op) /\ old.range_size = 1) =>
              /\ new.op = "invoke-static"
              /\ new.srcs = <<>>
              /\ new.range_size = 0
              /\ new.method = ResolvedTarget(old, "Any")
              /\ \A m \in Methods : \A i \in 1..Len(code'[m]) : code'[m][i].id # old.id]_vars

\* a drop-receiver pass is over and K holds an instruction the pass allocated
C3_Witness ==
  /\ pc = "static"
  /\ DropPhase(phase)
  /\ \E i \in 1..Len(code["K"]) :
       /\ code["K"][i].id >= 100
       /\ code["K"][i].op = "invoke-static"
       /\ code["K"][i].method \in methods

-----------------------------------------------------------------------------
(* The receiver register of a body, and the references to it. *)

InWindow(insn, r) ==
  has_range(insn.op) /\ insn.range_base <= r /\ r < insn.range_base + insn.range_size

IsSource(insn, r) == \E k \in 1..Len(insn.srcs) : insn.srcs[k] = r

\* some instruction names r as a source operand or has it inside its window
ReadSomewhere(c, r) == \E i \in 1..Len(c) : IsSource(c[i], r) \/ InWindow(c[i], r)

\* no instruction after the first names r at all
OnlyLoaded(c, r) ==
  \A i \in 2..Len(c) : ~IsSource(c[i], r) /\ ~InWindow(c[i], r) /\ c[i].dest # r

\* r is written by an instruction after the first and read by a later one
ReadAfterReassigned(c, r) ==
  \E i, j \in 2..Len(c) : i < j /\ c[i].dest = r /\ (IsSource(c[j], r) \/ InWindow(c[j], r))

InstanceBodies ==
  {m \in Methods : ~meth[m].static /\ code[m] # NoCode
                   /\ code[m][1].op = "load-param-object"}

(* C4: receiver-usage soundness.  For every instance method with a body,      *)
(* uses_this answers "not used" when no instruction after the receiver load   *)
(* names the receiver register, and "used" when some instruction has that     *)
(* register as a source operand or inside its range window, reassigned in     *)
(* between or not; so a drop-receiver phase selects no method that reads it.  *)
C4_ReceiverUsage ==
  /\ \A m \in InstanceBodies :
       LET c == code[m]
           this_reg == c[1].dest
       IN /\ OnlyLoaded(c, this_reg) => ~uses_this(c)
          /\ ReadSomewhere(c, this_reg) => uses_this(c)
  /\ (pc = "fix" /\ DropPhase(phase)) =>
       \A m \in methods : ~ReadSomewhere(code[m], code[m][1].dest)

\* the drop-receiver phase of the virtual methods has passed A over, whose
\* body writes the receiver register again and then reads it: the
\* keep-receiver phase holds A
C4_Witness ==
  /\ pc = "fix"
  /\ phase = 3
  /\ config.vmethods_not_using_this
  /\ "A" \in methods
  /\ ReadAfterReassigned(code["A"], code["A"][1].dest)

-----------------------------------------------------------------------------
(* The switches as the orchestrator's contract names them. *)

SwitchOfPhase(p) ==
  \/ p = 1 /\ config.vmethods_not_using_this
  \/ p = 2 /\ config.dmethods_not_using_this
  \/ p = 3 /\ config.vmethods_using_this
  \/ p = 4 /\ config.dmethods_using_this

OnlyVirtualSwitches ==
  /\ config.vmethods_not_using_this \/ config.vmethods_using_this
  /\ ~config.dmethods_not_using_this
  /\ ~config.dmethods_using_this

AllSwitchesOff == \A p \in 1..4 : ~SwitchOfPhase(p)

Grown(field) == report[field] - hist.base[field]

(* C5, as amended: in a run that converts only virtual methods, the           *)
(* virtual-call and the super-call counter together grow by the number of     *)
(* call sites the run patched, and the direct-call counter does not grow.     *)
C5_CounterGrowth ==
  (pc = "returned" /\ OnlyVirtualSwitches) =>
    /\ Grown("num_virtual_calls") + Grown("num_super_calls") = hist.patched
    /\ Grown("num_virtual_calls") >= 0
    /\ Grown("num_super_calls") >= 0
    /\ Grown("num_direct_calls") = 0

\* a run with only the virtual-method switches on has returned, having
\* patched a virtual call and a super call
C5_Witness ==
  /\ pc = "returned"
  /\ OnlyVirtualSwitches
  /\ Grown("num_virtual_calls") >= 1
  /\ Grown("num_super_calls") >= 1
  /\ hist.patched >= 2

(* C5 as claimed: in a run that converts only virtual methods the             *)
(* virtual-call counter of the report is the number of call sites patched in  *)
(* the run, and the super-call and direct-call counters are zero.  Stated for *)
(* the first run on a MethodDevirtualizer, in a scope whose methods all have  *)
(* a body.                                                                    *)
C5_AsClaimed ==
  (pc = "returned" /\ run = 1 /\ OnlyVirtualSwitches
     /\ \A m \in Methods : code[m] # NoCode) =>
    /\ report.num_virtual_calls = hist.patched
    /\ report.num_super_calls = 0
    /\ report.num_direct_calls = 0

(* C6 as claimed: whatever the switches, a drop-receiver phase hands on only  *)
(* eligible methods that uses_this reports as not using the receiver, and a   *)
(* keep-receiver phase only eligible methods that it reports as using it.     *)
C6_BucketExclusive ==
  pc = "fix" =>
    \A m \in methods :
      /\ ~(meth[m].keep \/ meth[m].external \/ meth[m].abstract)
      /\ m \in InstanceBodies =>
           IF DropPhase(phase) THEN ~uses_this(code[m]) ELSE uses_this(code[m])

(* C7 as claimed: in every enabled phase, an eligible candidate without       *)
(* instructions stops the run: no phase goes on to rewrite call sites for it. *)
C7_FailFastOnNoBody ==
  pc \in {"fix", "static", "count"} => \A m \in methods : code[m] # NoCode

(* C8: no-op phases.  While the run is at a phase whose switch is off, no     *)
(* step changes an instruction, a method declaration or a counter, and the    *)
(* run does not stop there; with all four switches off no step changes them   *)
(* at all, and the report returned is the counters as they were.              *)
C8_NoOpPhases ==
  [][/\ (pc \in {"begin", "fix", "static", "count"} /\ phase \in 1..4
         /\ ~SwitchOfPhase(phase)) =>
          /\ code' = code
          /\ meth' = meth
          /\ m_metrics' = m_metrics
          /\ pc' = "begin"
          /\ phase' = phase + 1
     /\ AllSwitchesOff =>
          /\ code' = code
          /\ meth' = meth
          /\ m_metrics' = m_metrics
          /\ pc' = "returned" => report' = hist.base]_vars

\* a run has returned that skipped the first phase and converted a method in
\* a later one
C8_Witness ==
  /\ pc = "returned"
  /\ ~config.vmethods_not_using_this
  /\ hist.kept >= 1
  /\ hist.patched >= 1

(* C9: cross-phase stability.  Whatever the switches, a run goes through the  *)
(* phases 1, 2, 3, 4 in this order, and an enabled phase rewrites the call    *)
(* sites, then makes the methods static, then updates its counter, each       *)
(* without touching what the others change, before the next phase begins.  No *)
(* method of a phase's set is static already, no static call has its target   *)
(* in the set, a pass leaves every static call as it is, and the assert on an *)
(* already static call never fires.                                           *)
C9_CrossPhaseStability ==
  [][/\ (pc = "begin" /\ phase \in 1..4) =>
          \/ pc' = "begin" /\ phase' = phase + 1 /\ ~SwitchOfPhase(phase)
          \/ pc' = "fix" /\ phase' = phase /\ SwitchOfPhase(phase)
          \/ pc' = "aborted"
     /\ pc = "fix" =>
          /\ pc' \in {"static", "aborted"}
          /\ phase' = phase /\ methods' = methods /\ meth' = meth
          /\ m_metrics'.num_methods_not_using_this = m_metrics.num_methods_not_using_this
          /\ m_metrics'.num_methods_using_this = m_metrics.num_methods_using_this
          /\ \A m \in methods : ~meth[m].static
          /\ \A p \in Positions :
               LET old == code[p[1]][p[2]] IN
               /\ InTargetSet(old) => ~is_invoke_static(old.op)
               /\ (is_invoke_static(old.op) /\ pc' = "static") => code'[p[1]][p[2]] = old
     /\ pc = "static" =>
          /\ pc' = "count" /\ phase' = phase /\ methods' = methods
          /\ m_metrics' = m_metrics
          /\ \A m \in methods : meth'[m].static
     /\ pc = "count" =>
          /\ pc' = "begin" /\ phase' = phase + 1
          /\ code' = code /\ meth' = meth
          /\ CallCounters(m_metrics') = CallCounters(m_metrics)
     /\ fail' \notin {"static_target", "bad_opcode"}]_vars

\* the keep-receiver phase of the virtual methods has rewritten call sites in
\* a run whose drop-receiver phase converted a method and patched its calls
C9_Witness ==
  /\ pc = "static"
  /\ phase = 3
  /\ hist.dropped >= 1
  /\ methods # {}
  /\ \E i, j \in 1..Len(code["K"]) :
       /\ is_invoke_static(code["K"][i].op) /\ code["K"][i].method \in methods
       /\ is_invoke_static(code["K"][j].op) /\ code["K"][j].method \notin methods
       /\ code["K"][j].method # "K"

(* C10 as claimed: the report is fresh per run.  When devirtualize_methods is *)
(* called a second time on the same MethodDevirtualizer, every counter of the *)
(* report it returns is what the second run alone patched and converted.      *)
C10_FreshReport ==
  (pc = "returned" /\ run = 2) =>
    /\ CallCounters(report) = hist.patched
    /\ report.num_methods_not_using_this = hist.dropped
    /\ report.num_methods_using_this = hist.kept

====
